---- MODULE Spec2Model ----
(***************************************************************************)
(* Model of the stall entry store (src/src/entry.rs), of the store         *)
(* commands add / remove / rename (src/src/command/) and of the collect    *)
(* and distribute runs (src/src/command/collect.rs,                        *)
(* src/src/action/distribute.rs) over a small file system, and of the      *)
(* program that loads the store from the stall file, dispatches one        *)
(* command and saves the store (src/src/bin/stall.rs).                     *)
(*                                                                         *)
(* A path is the sequence of its components: "/" is the root component,    *)
(* ".." the parent component, every other string a normal component.       *)
(***************************************************************************)
EXTENDS Integers, Sequences, FiniteSets, TLC

VARIABLES
    entries,    \* Stall.entries: the set of <<local, remote>> pairs
    modified,   \* Stall.load_status.modified
    last,       \* the last store operation, its arguments and its outcome
    fs,         \* the file system: file path -> FileStat
    clock,      \* the time a file written now gets as its modification time
    run,        \* the collect / distribute run in progress (or the last one)
    ev,         \* the entry the run (or a status check) evaluated last
    stall_file  \* the stall file at the load path of the store

vars == <<entries, modified, last, fs, clock, run, ev, stall_file>>

----------------------------------------------------------------------------
\* Bounds of the model.

\* Modification times range over 0..MaxTime.
MaxTime == 2

\* At most this many files are unreadable or without a modification time.
MaxFaults == 1

\* A stall file that is loaded holds at most this many lines (or pairs).
MaxLines == 2

\* The add and remove commands are given at most this many files.
MaxArgs == 2

----------------------------------------------------------------------------
\* Paths.

None == <<>>

StallDir == <<"/", "s">>

ValidLocals == {<<"a">>, <<"b">>}

ValidRemotes == {<<"/", "r", "a">>, <<"/", "r", "b">>, <<"/", "q", "a">>}

\* Paths without a file name: the root, and paths that end in "..".
LocalArgs == ValidLocals \cup {<<"..">>}

RemoteArgs == ValidRemotes \cup {<<"/">>}

\* Path::file_name: the last component when it is a normal one.
file_name(p) ==
    IF Len(p) = 0 THEN None
    ELSE IF p[Len(p)] \in {"/", ".."} THEN None
    ELSE <<p[Len(p)]>>

\* A check that forgets the root and the parent component.
HasFileName_NonEmpty(p) == Len(p) > 0

HasFileName(p) == file_name(p) # None

is_absolute(p) == Len(p) > 0 /\ p[1] = "/"

\* Path::join / PathBuf::push: an absolute path replaces the base.
join(base, p) == IF is_absolute(p) THEN p ELSE base \o p

----------------------------------------------------------------------------
\* The bidirectional map of the store, as the set of its pairs.

\* An insert that evicts nothing.
BiInsert_NoEvict(E, l, r) == E \cup {<<l, r>>}

\* An insert that evicts only the pair with the same left value.
BiInsert_LeftOnly(E, l, r) == {e \in E : e[1] # l} \cup {<<l, r>>}

\* An insert that keeps the old pairs when a value is taken already.
BiInsert_KeepOld(E, l, r) ==
    IF \E e \in E : e[1] = l \/ e[2] = r THEN E ELSE E \cup {<<l, r>>}

\* BiHashMap::insert: any pair with the same left or the same right value
\* is removed, then the new pair is added.
BiInsert(E, l, r) == {e \in E : e[1] # l /\ e[2] # r} \cup {<<l, r>>}

\* The pairs an insert of <<l, r>> overwrites.
Overwritten(E, l, r) == {e \in E : e[1] = l \/ e[2] = r}

\* BiHashMap::get_by_left, as used by Stall::entry_local.
EntryLocal(E, local) ==
    IF \E e \in E : e[1] = local
    THEN (CHOOSE e \in E : e[1] = local)[2]
    ELSE None

\* BiHashMap::get_by_right, as used by Stall::entry_remote.
EntryRemote(E, remote) ==
    IF \E e \in E : e[2] = remote
    THEN (CHOOSE e \in E : e[2] = remote)[1]
    ELSE None

\* BiHashMap::remove_by_left: the pair removed, or None.
RemovedByLeft(E, local) ==
    IF \E e \in E : e[1] = local
    THEN CHOOSE e \in E : e[1] = local
    ELSE None

\* BiHashMap::remove_by_right: the pair removed, or None.
RemovedByRight(E, remote) ==
    IF \E e \in E : e[2] = remote
    THEN CHOOSE e \in E : e[2] = remote
    ELSE None

\* A remove that returns the pair and leaves it in the map.
Without_Nothing(E, removed) == E

\* The map without the pair a remove returned.
Without(E, removed) == IF removed = None THEN E ELSE E \ {removed}

is_empty(E) == E = {}

----------------------------------------------------------------------------
\* The file system.

Files ==
    {<<"/", "s", "a">>, <<"/", "s", "b">>, <<"/", "r", "a">>, <<"/", "r", "b">>}

Absent == [kind |-> "absent", mtime |-> 0]

\* The stall file: absent, a file holding the entries written to it, such a
\* file that cannot be written ("protected"), or a file that is no text and
\* so holds no entries ("garbage").
NoStallFile == [kind |-> "absent", entries |-> {}]

Stat(f, p) == IF p \in DOMAIN f THEN f[p] ELSE Absent

Faults(f) == Cardinality({p \in DOMAIN f : f[p].kind \in {"unreadable", "nomtime"}})

NoLast ==
    [op |-> "none", local |-> None, remote |-> None, result |-> "none",
     ret |-> None, before |-> {}, wasModified |-> FALSE]

Idle ==
    [kind |-> "none", force |-> FALSE, dry_run |-> FALSE, promote |-> FALSE,
     todo |-> {}, result |-> "none", path |-> None, again |-> FALSE,
     files |-> <<>>]

NoEv ==
    [op |-> "none", entry |-> None, lstat |-> Absent, rstat |-> Absent,
     status |-> <<"none", "none">>, src |-> None, dst |-> None,
     sstat |-> Absent, dstat |-> Absent, state |-> "none", action |-> "none",
     copied |-> FALSE]

\* The process is alive: the last store operation did not panic.
Alive == last.result # "panic"

\* A collect or distribute run is in its loop.
Running == run.result = "running"

\* FileCmp::try_from of a file: an error for a file whose metadata cannot
\* be read, otherwise found or not found.
TryFromIsErr(st) == st.kind = "unreadable"

is_found(st) == st.kind \in {"file", "nomtime"}

\* Path::exists: false also when the metadata cannot be read.
exists(st) == st.kind \in {"file", "nomtime"}

\* FileCmp::partial_cmp(l, r, false): the order of the two modification
\* times, None when one of them is not available.
partial_cmp(l, r) ==
    IF l.kind # "file" \/ r.kind # "file" THEN "None"
    ELSE IF l.mtime < r.mtime THEN "Less"
    ELSE IF l.mtime = r.mtime THEN "Equal"
    ELSE "Greater"

\* Entry::status: the match over the two FileCmp results, local first.
EntryStatus(l, r) ==
    IF TryFromIsErr(l) /\ TryFromIsErr(r) THEN <<"Error", "Error">>
    ELSE IF TryFromIsErr(l) /\ ~is_found(r) THEN <<"Error", "Absent">>
    ELSE IF TryFromIsErr(l) THEN <<"Error", "Exists">>
    ELSE IF TryFromIsErr(r) /\ ~is_found(l) THEN <<"Absent", "Error">>
    ELSE IF TryFromIsErr(r) THEN <<"Exists", "Error">>
    ELSE IF ~is_found(l) /\ ~is_found(r) THEN <<"Absent", "Absent">>
    ELSE IF is_found(l) /\ ~is_found(r) THEN <<"Exists", "Absent">>
    ELSE IF ~is_found(l) /\ is_found(r) THEN <<"Absent", "Exists">>
    ELSE IF partial_cmp(l, r) = "Less" THEN <<"Newer", "Older">>
    ELSE IF partial_cmp(l, r) = "Equal" THEN <<"Same", "Same">>
    ELSE IF partial_cmp(l, r) = "Greater" THEN <<"Older", "Newer">>
    ELSE <<"Error", "Error">>

\* The local file Entry::status compares: the stall directory joined with
\* the entry's local path.
FullLocal(e) == join(StallDir, e[1])

\* copy_file: nothing with CopyMethod::None; otherwise `cp source target`,
\* whose exit status is ignored.  The copy gets the current time as its
\* modification time; cp fails, changing nothing, when the source cannot be
\* read or the target cannot be written.
\* A copy that is made in a dry run too.
copy_file_always(f, source, target, dry_run, now) ==
    IF exists(Stat(f, source)) /\ target \in DOMAIN f
    THEN [f EXCEPT ![target] = [kind |-> "file", mtime |-> now]]
    ELSE f

copy_file(f, source, target, dry_run, now) ==
    IF dry_run THEN f
    ELSE IF exists(Stat(f, source)) /\ target \in DOMAIN f
            /\ f[target].kind # "unreadable"
    THEN [f EXCEPT ![target] =
            IF f[target].kind = "nomtime" THEN f[target]
            ELSE [kind |-> "file", mtime |-> now]]
    ELSE f

\* `mv -f old new` of the rename command: the file keeps its modification
\* time; mv fails, changing nothing, when there is no file to move.
mv_file(f, old, new) ==
    IF old \in DOMAIN f /\ new \in DOMAIN f /\ old # new
       /\ exists(f[old]) /\ f[new].kind # "unreadable"
    THEN [f EXCEPT ![new] = f[old], ![old] = Absent]
    ELSE f

\* std::fs::remove_file succeeds exactly on a file that exists.
remove_file_ok(f, p) == p \in DOMAIN f /\ exists(f[p])

remove_file(f, p) == IF remove_file_ok(f, p) THEN [f EXCEPT ![p] = Absent] ELSE f

----------------------------------------------------------------------------
\* Store operations (src/src/entry.rs).

\* Stall::new: an empty store, not modified.
New ==
    /\ entries' = {}
    /\ modified' = FALSE
    /\ last' = [NoLast EXCEPT !.op = "new", !.result = "ok"]
    /\ UNCHANGED <<fs, clock, run, ev, stall_file>>

\* Stall::insert: both asserts come before any change.
Insert(local, remote) ==
    /\ Alive
    /\ IF HasFileName(local) /\ HasFileName(remote)
       THEN /\ modified' = TRUE
            /\ entries' = BiInsert(entries, local, remote)
            /\ last' = [op |-> "insert", local |-> local, remote |-> remote,
                        result |-> "ok", ret |-> None, before |-> entries,
                        wasModified |-> modified]
       ELSE /\ UNCHANGED <<entries, modified>>
            /\ last' = [op |-> "insert", local |-> local, remote |-> remote,
                        result |-> "panic", ret |-> None, before |-> entries,
                        wasModified |-> modified]
    /\ UNCHANGED <<fs, clock, run, ev, stall_file>>

\* A remove that marks the store modified only when it removed an entry.
RemoveLocal_IfRemoved(local) ==
    /\ Alive
    /\ modified' = (modified \/ RemovedByLeft(entries, local) # None)
    /\ entries' = Without(entries, RemovedByLeft(entries, local))
    /\ last' = [op |-> "remove_local", local |-> local, remote |-> None,
                result |-> "ok", ret |-> RemovedByLeft(entries, local),
                before |-> entries, wasModified |-> modified]
    /\ UNCHANGED <<fs, clock, run, ev, stall_file>>

\* Stall::remove_local.
RemoveLocal(local) ==
    /\ Alive
    /\ modified' = TRUE
    /\ entries' = Without(entries, RemovedByLeft(entries, local))
    /\ last' = [op |-> "remove_local", local |-> local, remote |-> None,
                result |-> "ok", ret |-> RemovedByLeft(entries, local),
                before |-> entries, wasModified |-> modified]
    /\ UNCHANGED <<fs, clock, run, ev, stall_file>>

\* Stall::remove_remote.
RemoveRemote(remote) ==
    /\ Alive
    /\ modified' = TRUE
    /\ entries' = Without(entries, RemovedByRight(entries, remote))
    /\ last' = [op |-> "remove_remote", local |-> None, remote |-> remote,
                result |-> "ok", ret |-> RemovedByRight(entries, remote),
                before |-> entries, wasModified |-> modified]
    /\ UNCHANGED <<fs, clock, run, ev, stall_file>>

\* Reading a stall file (Stall::read_from_file): the RON format, a map of
\* pairs inserted one after the other, or else the list format.
RECURSIVE InsertAll(_, _)
InsertAll(E, pairs) ==
    IF pairs = <<>> THEN E
    ELSE InsertAll(BiInsert(E, Head(pairs)[1], Head(pairs)[2]), Tail(pairs))

\* parse_list_from_file skips empty lines and comment lines.
IsSkippedLine(line) == line = None \/ line[1] \in {"#", "//"}

\* insert_list_remote for every remaining line: the local path is the file
\* name of the remote path.  The parse panics on a line without a file name.
RECURSIVE ParseList(_, _)
ParseList(E, lines) ==
    IF lines = <<>> THEN [panic |-> FALSE, entries |-> E]
    ELSE IF IsSkippedLine(Head(lines)) THEN ParseList(E, Tail(lines))
    ELSE IF ~HasFileName(Head(lines)) THEN [panic |-> TRUE, entries |-> {}]
    ELSE ParseList(BiInsert(E, file_name(Head(lines)), Head(lines)), Tail(lines))

SeqsUpTo(S, n) == UNION {[1..k -> S] : k \in 0..n}

ReadRon(pairs) ==
    /\ ~Running
    /\ entries' = InsertAll({}, pairs)
    /\ modified' = FALSE
    /\ last' = [NoLast EXCEPT !.op = "read_ron", !.result = "ok"]
    /\ run' = Idle
    /\ ev' = NoEv
    /\ UNCHANGED <<fs, clock, stall_file>>

ReadList(lines) ==
    /\ ~Running
    /\ LET parsed == ParseList({}, lines)
       IN  /\ entries' = parsed.entries
           /\ last' = [NoLast EXCEPT
                         !.op = "read_list",
                         !.result = IF parsed.panic THEN "panic" ELSE "ok"]
    /\ modified' = FALSE
    /\ run' = Idle
    /\ ev' = NoEv
    /\ UNCHANGED <<fs, clock, stall_file>>

----------------------------------------------------------------------------
\* Entry::collect, which the add command calls for the entry it has just
\* inserted: the status of the entry decides the action, a Copy or a Force
\* copies the remote file to the local one, and a Stop is an error when
\* warnings are promoted to errors.
EntryCollectAction(status, force) ==
    IF status \in {<<"Absent", "Exists">>, <<"Older", "Newer">>} THEN "Copy"
    ELSE IF force /\ status \in {<<"Same", "Same">>, <<"Newer", "Older">>} THEN "Force"
    ELSE IF status[1] = "Error" \/ status[2] = "Error" THEN "Stop"
    ELSE "Skip"

EntryCollect(e, f, force, dry_run, promote, now) ==
    LET action == EntryCollectAction(
                    EntryStatus(Stat(f, FullLocal(e)), Stat(f, e[2])), force)
    IN  IF action \in {"Copy", "Force"}
        THEN [fs |-> copy_file(f, e[2], FullLocal(e), dry_run, now), result |-> "ok"]
        ELSE IF action = "Stop" /\ promote
        THEN [fs |-> f, result |-> "err"]
        ELSE [fs |-> f, result |-> "ok"]

----------------------------------------------------------------------------
\* The store commands (src/src/command/).  A command's outcome is the store,
\* the files and the result it leaves: "ok", "err" (an Err is returned) or
\* "panic".

Outcome(E, m, f, result) ==
    [entries |-> E, modified |-> m, fs |-> f, result |-> result]

\* A rename that overwrites an entry without being forced to.
RenameOutcome_Overwrite(E, m, f, from, to, move_stall_dir, force, dry_run, quiet, mv_starts) ==
    IF dry_run \/ is_empty(E) THEN Outcome(E, m, f, "ok")
    ELSE IF RemovedByLeft(E, from) = None THEN Outcome(E, TRUE, f, "err")
    ELSE Outcome(BiInsert(Without(E, RemovedByLeft(E, from)), to,
                          RemovedByLeft(E, from)[2]),
                 TRUE, f, "ok")

\* rename (src/src/command/rename.rs).  The `mv` process is started after
\* the entries were changed; when it cannot be started (`mv_starts` is
\* false) its error is returned.
RenameOutcome(E, m, f, from, to, move_stall_dir, force, dry_run, quiet, mv_starts) ==
    IF dry_run /\ quiet THEN Outcome(E, m, f, "ok")
    ELSE IF is_empty(E) THEN Outcome(E, m, f, "ok")
    ELSE IF EntryLocal(E, to) # None /\ ~force THEN Outcome(E, m, f, "err")
    ELSE IF dry_run THEN Outcome(E, m, f, "ok")
    ELSE LET removed == RemovedByLeft(E, from)
             E1 == Without(E, removed)
         IN  IF removed = None THEN Outcome(E1, TRUE, f, "err")
             ELSE IF ~(HasFileName(to) /\ HasFileName(removed[2]))
             THEN Outcome(E1, TRUE, f, "panic")
             ELSE IF move_stall_dir # None /\ ~mv_starts
             THEN Outcome(BiInsert(E1, to, removed[2]), TRUE, f, "err")
             ELSE Outcome(BiInsert(E1, to, removed[2]), TRUE,
                          IF move_stall_dir # None
                          THEN mv_file(f, join(move_stall_dir, from),
                                       join(move_stall_dir, to))
                          ELSE f,
                          "ok")

\* A remove that removes the first file in a dry run too.
RemoveLoop_InDryRun(st, files, delete_stall_dir, remote_naming, dry_run, promote) ==
    IF files = <<>> THEN st
    ELSE LET removed == IF remote_naming
                        THEN RemovedByRight(st.entries, Head(files))
                        ELSE RemovedByLeft(st.entries, Head(files))
         IN  Outcome(Without(st.entries, removed), TRUE,
                     IF removed # None /\ delete_stall_dir # None
                     THEN remove_file(st.fs, join(delete_stall_dir, removed[1]))
                     ELSE st.fs,
                     "ok")

\* The loop of remove (src/src/command/remove.rs) over the files left.
RECURSIVE RemoveLoop(_, _, _, _, _, _)
RemoveLoop(st, files, delete_stall_dir, remote_naming, dry_run, promote) ==
    IF files = <<>> THEN st
    ELSE IF dry_run THEN st
    ELSE LET removed == IF remote_naming
                        THEN RemovedByRight(st.entries, Head(files))
                        ELSE RemovedByLeft(st.entries, Head(files))
             E1 == Without(st.entries, removed)
             path == join(delete_stall_dir, removed[1])
         IN  IF removed # None /\ delete_stall_dir # None
             THEN IF remove_file_ok(st.fs, path)
                  THEN RemoveLoop(Outcome(E1, TRUE, remove_file(st.fs, path), "ok"),
                                  Tail(files), delete_stall_dir, remote_naming,
                                  dry_run, promote)
                  ELSE IF promote THEN Outcome(E1, TRUE, st.fs, "err")
                  ELSE RemoveLoop(Outcome(E1, TRUE, st.fs, "ok"),
                                  Tail(files), delete_stall_dir, remote_naming,
                                  dry_run, promote)
             ELSE RemoveLoop(Outcome(E1, TRUE, st.fs, "ok"),
                             Tail(files), delete_stall_dir, remote_naming,
                             dry_run, promote)

RemoveOutcome(E, m, f, files, delete_stall_dir, remote_naming, dry_run, quiet, promote) ==
    IF dry_run /\ quiet THEN Outcome(E, m, f, "ok")
    ELSE RemoveLoop(Outcome(E, m, f, "ok"), files, delete_stall_dir,
                    remote_naming, dry_run, promote)

\* A local path that keeps the directories of the remote path.
AddLocal_WholePath(remote, rename, into) ==
    IF rename # None THEN join(join(<<>>, into), rename)
    ELSE IF HasFileName(remote) THEN join(join(<<>>, into), remote)
    ELSE None

\* The local path add gives a remote path: `into`, then the new name or the
\* file name of the remote path; None when there is neither.
AddLocal(remote, rename, into) ==
    IF rename # None THEN join(join(<<>>, into), rename)
    ELSE IF HasFileName(remote) THEN join(join(<<>>, into), file_name(remote))
    ELSE None

\* The loop of add (src/src/command/add.rs) over the files left.
RECURSIVE AddLoop(_, _, _, _, _, _, _, _)
AddLoop(st, files, rename, into, collect_stall_dir, dry_run, promote, now) ==
    IF files = <<>> THEN st
    ELSE LET remote == Head(files)
             local == AddLocal(remote, rename, into)
             E1 == BiInsert(st.entries, local, remote)
             c == EntryCollect(<<local, remote>>, st.fs, FALSE, dry_run, promote, now)
         IN  IF local = None
             THEN IF promote THEN [st EXCEPT !.result = "err"]
                  ELSE AddLoop(st, Tail(files), rename, into, collect_stall_dir,
                               dry_run, promote, now)
             ELSE IF dry_run THEN st
             ELSE IF ~(HasFileName(local) /\ HasFileName(remote))
             THEN [st EXCEPT !.result = "panic"]
             ELSE IF collect_stall_dir = None
             THEN AddLoop(Outcome(E1, TRUE, st.fs, "ok"), Tail(files), rename, into,
                          collect_stall_dir, dry_run, promote, now)
             ELSE IF c.result = "err" THEN Outcome(E1, TRUE, c.fs, "err")
             ELSE AddLoop(Outcome(E1, TRUE, c.fs, "ok"), Tail(files), rename, into,
                          collect_stall_dir, dry_run, promote, now)

AddOutcome(E, m, f, files, rename, into, collect_stall_dir, dry_run, quiet, promote, now) ==
    IF dry_run /\ quiet THEN Outcome(E, m, f, "ok")
    ELSE AddLoop(Outcome(E, m, f, "ok"), files, rename, into, collect_stall_dir,
                 dry_run, promote, now)

\* A command ran: the store and the files are as it left them.
Command(op, out) ==
    /\ Alive
    /\ ~Running
    /\ entries' = out.entries
    /\ modified' = out.modified
    /\ fs' = out.fs
    /\ last' = [op |-> op, local |-> None, remote |-> None, result |-> out.result,
                ret |-> None, before |-> entries, wasModified |-> modified]
    /\ UNCHANGED <<clock, run, ev, stall_file>>

Rename(from, to, move_stall_dir, force, dry_run, quiet, mv_starts) ==
    Command("rename", RenameOutcome(entries, modified, fs, from, to,
                                    move_stall_dir, force, dry_run, quiet,
                                    mv_starts))

Remove(files, delete_stall_dir, remote_naming, dry_run, quiet, promote) ==
    Command("remove", RemoveOutcome(entries, modified, fs, files, delete_stall_dir,
                                    remote_naming, dry_run, quiet, promote))

Add(files, rename, into, collect_stall_dir, dry_run, quiet, promote) ==
    Command("add", AddOutcome(entries, modified, fs, files, rename, into,
                              collect_stall_dir, dry_run, quiet, promote, clock))

----------------------------------------------------------------------------
\* Collect and distribute runs.

\* The comparison the wrong way round.
collect_source_older(s, t) == s.mtime < t.mtime

\* collect: `source_last_modified > target_last_modified`.
collect_source_newer(s, t) == s.mtime > t.mtime

\* distribute: `source_last_modified > target_last_modified`.
distribute_source_newer(s, t) == s.mtime > t.mtime

\* The body of the loop of collect (src/src/command/collect.rs) for one
\* entry: the source is the entry's remote path, the target the stall
\* directory joined with the file name of the source.  `outcome` is "copy"
\* (copy_file is called), "skip" (continue) or the error the run returns.
CollectEntry(e, f, force, promote) ==
    LET source == e[2]
        target == join(StallDir, file_name(source))
        s == Stat(f, source)
        t == Stat(f, target)
        at == [src |-> source, dst |-> target, sstat |-> s, dstat |-> t]
    IN  IF ~HasFileName(source)
        THEN at @@ [state |-> "none", action |-> "none", outcome |-> "InvalidFile"]
        ELSE IF exists(s) /\ exists(t)
        THEN IF s.kind = "nomtime" \/ t.kind = "nomtime"
             THEN at @@ [state |-> "none", action |-> "none",
                         outcome |-> "MetadataError"]
             ELSE IF collect_source_newer(s, t)
             THEN at @@ [state |-> "Newer", action |-> "Copy", outcome |-> "copy"]
             ELSE IF force
             THEN at @@ [state |-> "Force", action |-> "Copy", outcome |-> "copy"]
             ELSE at @@ [state |-> "Older", action |-> "Skip", outcome |-> "skip"]
        ELSE IF exists(s)
        THEN at @@ [state |-> "Found", action |-> "Copy", outcome |-> "copy"]
        ELSE IF promote
        THEN at @@ [state |-> "Error", action |-> "Stop", outcome |-> "MissingFile"]
        ELSE at @@ [state |-> "Error", action |-> "Skip", outcome |-> "skip"]

\* The body of the loop of distribute (src/src/action/distribute.rs) for one
\* entry: the target is the entry's remote path, the source the stall
\* directory joined with the file name of the target.
DistributeEntry(e, f, force, promote) ==
    LET target == e[2]
        source == join(StallDir, file_name(target))
        s == Stat(f, source)
        t == Stat(f, target)
        at == [src |-> source, dst |-> target, sstat |-> s, dstat |-> t]
    IN  IF ~HasFileName(target)
        THEN at @@ [state |-> "none", action |-> "none", outcome |-> "InvalidFile"]
        ELSE IF exists(s) /\ exists(t)
        THEN IF s.kind = "nomtime" \/ t.kind = "nomtime"
             THEN at @@ [state |-> "none", action |-> "none",
                         outcome |-> "MetadataError"]
             ELSE IF distribute_source_newer(s, t)
             THEN at @@ [state |-> "Newer", action |-> "Copy", outcome |-> "copy"]
             ELSE IF force
             THEN at @@ [state |-> "Force", action |-> "Copy", outcome |-> "copy"]
             ELSE at @@ [state |-> "Older", action |-> "Skip", outcome |-> "skip"]
        ELSE IF exists(s)
        THEN at @@ [state |-> "Found", action |-> "Copy", outcome |-> "copy"]
        ELSE IF promote
        THEN at @@ [state |-> "Error", action |-> "Stop", outcome |-> "MissingFile"]
        ELSE at @@ [state |-> "Older", action |-> "Skip", outcome |-> "skip"]

\* The first of the files given to distribute that is not the local path
\* of an entry (src/src/command/distribute.rs), None when there is none.
RECURSIVE FirstUnknown(_, _)
FirstUnknown(E, files) ==
    IF files = <<>> THEN None
    ELSE IF EntryLocal(E, Head(files)) = None THEN Head(files)
    ELSE FirstUnknown(E, Tail(files))

\* The entries a run goes over: all of them without files, otherwise the
\* entries the files select.
Selected(E, files) ==
    IF files = <<>> THEN E
    ELSE {e \in E : \E i \in 1..Len(files) : files[i] = e[1]}

\* A collect run comes right after a collect run which was no dry run and
\* returned Ok, with no change to the files in between other than the
\* copies of that run.
RunsAgain(kind, files) ==
    /\ kind = "collect"
    /\ files = <<>>
    /\ run.kind = "collect"
    /\ run.result = "ok"
    /\ ~run.dry_run
    /\ run.todo = {}
    /\ entries # {}

\* collect / distribute is called: the run is over at once when the store
\* is empty, and with an error when a file given to it is not in the store;
\* otherwise the loop is entered.  Only distribute takes files.
StartRun(kind, files, force, dry_run, promote) ==
    /\ Alive
    /\ ~Running
    /\ kind = "collect" => files = <<>>
    /\ run' = [kind |-> kind, force |-> force, dry_run |-> dry_run,
               promote |-> promote,
               todo |-> IF is_empty(entries) \/ FirstUnknown(entries, files) # None
                        THEN {}
                        ELSE Selected(entries, files),
               result |-> IF is_empty(entries) THEN "ok"
                          ELSE IF FirstUnknown(entries, files) # None
                          THEN "UnknownEntry"
                          ELSE "running",
               path |-> IF is_empty(entries) THEN None
                        ELSE FirstUnknown(entries, files),
               again |-> RunsAgain(kind, files),
               files |-> files]
    /\ ev' = NoEv
    /\ UNCHANGED <<entries, modified, last, fs, clock, stall_file>>

\* A run that goes on after an error.
RunResult_Continue(outcome, rest) ==
    IF rest = {} THEN "ok" ELSE "running"

\* The result of the run after an entry: the error the entry ends it with,
\* Ok after the last entry, and otherwise the loop goes on.
RunResult(outcome, rest) ==
    IF outcome \notin {"copy", "skip"} THEN outcome
    ELSE IF rest = {} THEN "ok"
    ELSE "running"

\* One iteration of the loop, for the entry the iteration order of the map
\* yields next: the entry is evaluated and, unless it is skipped or ends the
\* run with an error, copied.
RunStep(e) ==
    /\ Running
    /\ e \in run.todo
    /\ LET r == IF run.kind = "collect"
                THEN CollectEntry(e, fs, run.force, run.promote)
                ELSE DistributeEntry(e, fs, run.force, run.promote)
           rest == run.todo \ {e}
       IN  /\ fs' = IF r.outcome = "copy"
                    THEN copy_file(fs, r.src, r.dst, run.dry_run, clock)
                    ELSE fs
           /\ ev' = [op |-> run.kind, entry |-> e,
                     lstat |-> Stat(fs, FullLocal(e)), rstat |-> Stat(fs, e[2]),
                     status |-> <<"none", "none">>,
                     src |-> r.src, dst |-> r.dst,
                     sstat |-> r.sstat, dstat |-> r.dstat,
                     state |-> r.state, action |-> r.action,
                     copied |-> (r.outcome = "copy" /\ ~run.dry_run)]
           /\ run' = [run EXCEPT
                        !.todo = rest,
                        !.result = RunResult(r.outcome, rest),
                        !.path = IF r.outcome = "MissingFile" THEN r.src ELSE None]
    /\ UNCHANGED <<entries, modified, last, clock, stall_file>>

\* Entry::write_status: the status of one entry is computed and printed.
WriteStatus(e) ==
    /\ Alive
    /\ ~Running
    /\ e \in entries
    /\ ev' = [NoEv EXCEPT
                !.op = "status", !.entry = e,
                !.lstat = Stat(fs, FullLocal(e)), !.rstat = Stat(fs, e[2]),
                !.status = EntryStatus(Stat(fs, FullLocal(e)), Stat(fs, e[2]))]
    /\ run' = Idle
    /\ UNCHANGED <<entries, modified, last, fs, clock, stall_file>>

----------------------------------------------------------------------------
\* The environment: files are written, deleted or become unreadable between
\* runs, and time passes.

WriteFile(p) ==
    /\ ~Running
    /\ fs[p].kind \in {"absent", "file"}
    /\ fs' = [fs EXCEPT ![p] = [kind |-> "file", mtime |-> clock]]
    /\ fs' # fs
    /\ run' = Idle
    /\ ev' = NoEv
    /\ UNCHANGED <<entries, modified, last, clock, stall_file>>

DeleteFile(p) ==
    /\ ~Running
    /\ fs[p].kind # "absent"
    /\ fs' = [fs EXCEPT ![p] = Absent]
    /\ run' = Idle
    /\ ev' = NoEv
    /\ UNCHANGED <<entries, modified, last, clock, stall_file>>

BreakFile(p, kind) ==
    /\ ~Running
    /\ fs[p].kind \in {"absent", "file"}
    /\ Faults(fs) < MaxFaults
    /\ fs' = [fs EXCEPT ![p] = [kind |-> kind, mtime |-> 0]]
    /\ run' = Idle
    /\ ev' = NoEv
    /\ UNCHANGED <<entries, modified, last, clock, stall_file>>

Tick ==
    /\ ~Running
    /\ clock < MaxTime
    /\ clock' = clock + 1
    /\ run' = Idle
    /\ ev' = NoEv
    /\ UNCHANGED <<entries, modified, last, fs, stall_file>>

----------------------------------------------------------------------------
InitStore ==
    /\ entries = {}
    /\ modified = FALSE
    /\ last = [NoLast EXCEPT !.op = "new", !.result = "ok"]
    /\ fs = [p \in Files |-> Absent]
    /\ clock = 0
    /\ run = Idle
    /\ ev = NoEv
    /\ stall_file = NoStallFile

\* The pairs of a RON stall file, which are not checked for file names.
RonPairs ==
    (ValidLocals \X {<<"/", "r", "a">>, <<"/", "r", "b">>})
        \cup {<<(<<"..">>), (<<"/", "r", "a">>)>>, <<(<<"a">>), (<<"/">>)>>}

\* The lines of a list stall file: remote paths, empty lines and comments.
ListLines == {<<"/", "r", "a">>, <<"/", "q", "a">>, <<"/">>, None, <<"#">>}

\* The remote paths given to add.
AddArgs == {<<"/", "r", "a">>, <<"/", "q", "a">>, <<"/">>}

\* The flags dry_run and quiet of a command.
Modes == {<<FALSE, FALSE>>, <<TRUE, FALSE>>, <<TRUE, TRUE>>}

Dirs == {None, StallDir}

\* rename: whether the file is to be moved too, and whether the `mv`
\* process can be started then.
Moves == {<<FALSE, TRUE>>, <<TRUE, TRUE>>, <<TRUE, FALSE>>}

NextStore ==
    \/ New
    \/ \E pairs \in SeqsUpTo(RonPairs, MaxLines) : ReadRon(pairs)
    \/ \E lines \in SeqsUpTo(ListLines, MaxLines) : ReadList(lines)
    \/ \E l \in LocalArgs, r \in RemoteArgs : Insert(l, r)
    \/ \E l \in LocalArgs : RemoveLocal(l)
    \/ \E r \in RemoteArgs : RemoveRemote(r)
    \/ \E from, to \in LocalArgs, mv \in Moves, force \in BOOLEAN, mode \in Modes :
            Rename(from, to, IF mv[1] THEN StallDir ELSE None, force,
                   mode[1], mode[2], mv[2])
    \/ \E remote_naming \in BOOLEAN :
       \E files \in SeqsUpTo(IF remote_naming THEN RemoteArgs ELSE LocalArgs, MaxArgs),
          dir \in Dirs, promote \in BOOLEAN, mode \in Modes :
            Remove(files, dir, remote_naming, mode[1], mode[2], promote)
    \/ \E rename \in {None, <<"b">>, <<"..">>} :
       \E files \in SeqsUpTo(AddArgs, IF rename = None THEN MaxArgs ELSE 1),
          into \in {None, <<"d">>}, dir \in Dirs, promote \in BOOLEAN, mode \in Modes :
            Add(files, rename, into, dir, mode[1], mode[2], promote)

SpecStore == InitStore /\ [][NextStore]_vars

\* The stores a run starts from: empty, one entry, one entry whose local
\* path is not the file name of its remote path, and two entries.
SyncStores ==
    { {},
      {<<(<<"a">>), (<<"/", "r", "a">>)>>},
      {<<(<<"b">>), (<<"/", "r", "a">>)>>},
      {<<(<<"a">>), (<<"/", "r", "a">>)>>, <<(<<"b">>), (<<"/", "r", "b">>)>>} }

\* The files given to distribute: local paths of entries, and the path "c",
\* which is in no store.
Selections ==
    {<<(<<"a">>)>>, <<(<<"c">>)>>, <<(<<"a">>), (<<"c">>)>>}

InitSync ==
    /\ entries \in SyncStores
    /\ modified = FALSE
    /\ last = [NoLast EXCEPT !.op = "read_from_path", !.result = "ok"]
    /\ fs = [p \in Files |-> Absent]
    /\ clock = 0
    /\ run = Idle
    /\ ev = NoEv
    /\ stall_file = [kind |-> "file", entries |-> entries]

NextSync ==
    \/ \E kind \in {"collect", "distribute"}, force, dry_run, promote \in BOOLEAN :
            StartRun(kind, <<>>, force, dry_run, promote)
    \/ \E files \in Selections :
            StartRun("distribute", files, FALSE, FALSE, FALSE)
    \/ \E e \in entries : RunStep(e)
    \/ \E e \in entries : WriteStatus(e)
    \/ \E p \in Files : WriteFile(p)
    \/ \E p \in Files : DeleteFile(p)
    \/ \E p \in Files, kind \in {"unreadable", "nomtime"} : BreakFile(p, kind)
    \/ Tick

SpecSync == InitSync /\ [][NextSync]_vars

----------------------------------------------------------------------------
\* The program (src/src/bin/stall.rs): one run of main loads the store from
\* the stall file, dispatches one command and saves the store when it is
\* modified.  The stall file holds the entries written to it; a "protected"
\* file can be read but not written.

\* Stall::read_from_path: an error when the file cannot be opened, or read
\* as text.
read_from_path(file) ==
    [ok |-> file.kind \in {"file", "protected"}, entries |-> file.entries]

\* Stall::write_to_path: the file is created or truncated and the entries
\* are written to it.  It takes `&self`: the store is left as it is.
write_to_path(file, E) ==
    IF file.kind = "protected" THEN [ok |-> FALSE, file |-> file]
    ELSE [ok |-> TRUE, file |-> [kind |-> "file", entries |-> E]]

\* A write that truncates a file which exists.
write_to_path_if_new_truncate(file, E) ==
    IF file.kind = "protected" THEN [ok |-> FALSE, file |-> file]
    ELSE [ok |-> TRUE, file |-> [kind |-> "file", entries |-> E]]

\* Stall::write_to_path_if_new: `create_new` fails on a file that exists.
write_to_path_if_new(file, E) ==
    IF file.kind # "absent" THEN [ok |-> FALSE, file |-> file]
    ELSE [ok |-> TRUE, file |-> [kind |-> "file", entries |-> E]]

\* init (src/src/command/init.rs): the file after it, and its result.
InitOutcome(file, E, dry_run, quiet) ==
    IF dry_run /\ quiet THEN [file |-> file, result |-> "ok"]
    ELSE IF dry_run THEN [file |-> file, result |-> "ok"]
    ELSE [file |-> write_to_path_if_new(file, E).file,
          result |-> IF write_to_path_if_new(file, E).ok THEN "ok" ELSE "err"]

\* The orders in which the map can yield the entries of E.
Orders(E) ==
    {o \in [1..Cardinality(E) -> E] :
        \A i, j \in 1..Cardinality(E) : o[i] = o[j] => i = j}

\* A whole collect or distribute run over the entries in the given order:
\* the files it leaves, its result and the action printed for each entry it
\* came to.
RECURSIVE RunAll(_, _, _, _, _, _, _)
RunAll(f, order, kind, force, dry_run, promote, now) ==
    IF order = <<>> THEN [fs |-> f, result |-> "ok", actions |-> {}]
    ELSE LET e == Head(order)
             r == IF kind = "collect"
                  THEN CollectEntry(e, f, force, promote)
                  ELSE DistributeEntry(e, f, force, promote)
             f1 == IF r.outcome = "copy"
                   THEN copy_file(f, r.src, r.dst, dry_run, now)
                   ELSE f
             rest == RunAll(f1, Tail(order), kind, force, dry_run, promote, now)
         IN  IF r.outcome \notin {"copy", "skip"}
             THEN [fs |-> f, result |-> r.outcome, actions |-> {<<e, r.action>>}]
             ELSE [rest EXCEPT !.actions = @ \cup {<<e, r.action>>}]

\* The command main dispatches to, for the store it loaded.  collect,
\* distribute and status take the store by shared reference.
Dispatch(c, E, f, order, now) ==
    CASE c.op = "add" ->
            AddOutcome(E, FALSE, f, c.files, c.rename, c.into,
                       IF c.collect THEN StallDir ELSE None,
                       c.dry_run, c.quiet, c.promote, now)
      [] c.op = "remove" ->
            RemoveOutcome(E, FALSE, f, c.files,
                          IF c.delete THEN StallDir ELSE None,
                          c.remote_naming, c.dry_run, c.quiet, c.promote)
      [] c.op = "move" ->
            RenameOutcome(E, FALSE, f, c.from, c.to,
                          IF c.move_file THEN StallDir ELSE None,
                          c.force, c.dry_run, c.quiet, c.mv_starts)
      [] c.op \in {"collect", "distribute"} ->
            Outcome(E, FALSE,
                    RunAll(f, order, c.op, c.force, c.dry_run, c.promote, now).fs,
                    IF RunAll(f, order, c.op, c.force, c.dry_run, c.promote,
                              now).result = "ok"
                    THEN "ok" ELSE "err")
      [] OTHER -> Outcome(E, FALSE, f, "ok")

\* A save that is made whether or not the store is modified.
MainSaves_Always(out) == out.result # "panic"

\* The end of main: `if stall_data.modified()`.  A panic ends the process
\* before it.
MainSaves(out) == out.result # "panic" /\ out.modified

\* main returns before it dispatches a command.
MainReturn(c, exit) ==
    /\ entries' = {}
    /\ modified' = FALSE
    /\ last' = [op |-> c.op, local |-> None, remote |-> None, result |-> "none",
                ret |-> None, before |-> {}, wasModified |-> FALSE,
                args |-> c, saved |-> "none", exit |-> exit, file |-> stall_file]
    /\ run' = Idle
    /\ ev' = NoEv
    /\ UNCHANGED <<fs, stall_file>>

\* main after the command: the store is written to its load path when it is
\* modified, and the error of the write or else the result of the command
\* is returned.  The store is as the process leaves it.
MainExit(c, loaded, file, out) ==
    LET save == IF MainSaves(out) THEN write_to_path(file, out.entries)
                ELSE [ok |-> TRUE, file |-> file]
    IN  /\ entries' = out.entries
        /\ modified' = out.modified
        /\ fs' = out.fs
        /\ stall_file' = save.file
        /\ last' = [op |-> c.op, local |-> None, remote |-> None,
                    result |-> out.result, ret |-> None, before |-> loaded,
                    wasModified |-> FALSE, args |-> c,
                    saved |-> IF ~MainSaves(out) THEN "none"
                              ELSE IF save.ok THEN "ok" ELSE "err",
                    exit |-> IF MainSaves(out) /\ ~save.ok THEN "err"
                             ELSE out.result,
                    file |-> stall_file]
        /\ run' = Idle
        /\ ev' = NoEv

\* main_facade for the command c; `order` is the iteration order of the map
\* in a collect or distribute run.  Every run of the program is later than
\* the one before it.
Main(c, order) ==
    LET loaded == read_from_path(stall_file)
        init == InitOutcome(stall_file, loaded.entries, c.dry_run, c.quiet)
    IN  /\ clock < MaxTime
        /\ clock' = clock + 1
        /\ IF c.op = "init" /\ c.stall_is_file /\ stall_file.kind # "absent"
           THEN MainReturn(c, "err")
           ELSE IF ~loaded.ok /\ c.op # "init"
           THEN MainReturn(c, "err")
           ELSE IF c.op = "add" /\ Len(c.files) > 1 /\ c.rename # None
           THEN MainReturn(c, "usage")
           ELSE IF c.op = "init"
           THEN MainExit(c, loaded.entries, init.file,
                         Outcome(loaded.entries, FALSE, fs, init.result))
           ELSE MainExit(c, loaded.entries, stall_file,
                         Dispatch(c, loaded.entries, fs, order, clock + 1))

\* The environment of the program: the stall file is deleted, or protected
\* against writing, or made writable again.
DeleteStallFile ==
    /\ stall_file.kind # "absent"
    /\ stall_file' = NoStallFile
    /\ last' = [NoLast EXCEPT !.op = "rm"]
    /\ UNCHANGED <<entries, modified, fs, clock, run, ev>>

ProtectStallFile ==
    /\ stall_file.kind \in {"file", "protected"}
    /\ stall_file' = [stall_file EXCEPT
                        !.kind = IF @ = "file" THEN "protected" ELSE "file"]
    /\ last' = [NoLast EXCEPT !.op = "chmod"]
    /\ UNCHANGED <<entries, modified, fs, clock, run, ev>>

\* The files the program starts with: the remote files only; the remote
\* files and copies of them in the stall directory; the remote files and a
\* local file that cannot be read or written.
MainFiles == Files \cup {<<"/", "q", "a">>}

Old == [kind |-> "file", mtime |-> 0]

MainFileSystems ==
    { [p \in MainFiles |-> IF p[2] = "s" THEN Absent ELSE Old],
      [p \in MainFiles |-> Old],
      [p \in MainFiles |-> IF p = <<"/", "s", "a">>
                           THEN [kind |-> "unreadable", mtime |-> 0]
                           ELSE IF p[2] = "s" THEN Absent ELSE Old] }

\* The stores of the stall file the program starts with; in the last one
\* the remote paths of two entries have the same file name.
MainStores ==
    { {},
      {<<(<<"a">>), (<<"/", "r", "a">>)>>},
      {<<(<<"a">>), (<<"/", "r", "a">>)>>, <<(<<"b">>), (<<"/", "r", "b">>)>>},
      {<<(<<"a">>), (<<"/", "r", "a">>)>>, <<(<<"b">>), (<<"/", "q", "a">>)>>} }

\* The program starts in a directory without a stall file, or with the
\* stall file an earlier run has saved.
InitMain ==
    /\ entries = {}
    /\ modified = FALSE
    /\ last = NoLast
    /\ fs \in MainFileSystems
    /\ clock = 0
    /\ run = Idle
    /\ ev = NoEv
    /\ stall_file \in {NoStallFile, [kind |-> "garbage", entries |-> {}]} \cup
                      {[kind |-> "file", entries |-> E] : E \in MainStores}

\* The command lines given to the program.
InitCommands ==
    {[op |-> "init", dry_run |-> m[1], quiet |-> m[2], stall_is_file |-> s] :
        m \in Modes, s \in BOOLEAN}

\* The flags dry_run, quiet and promote of add and remove.
Flags ==
    {<<FALSE, FALSE, FALSE>>, <<FALSE, FALSE, TRUE>>, <<TRUE, FALSE, FALSE>>,
     <<TRUE, TRUE, FALSE>>}

\* The files given to add, with the new name and the directory given.
AddFiles ==
    {<<(<<(<<"/", "r", "a">>)>>), None, None>>,
     <<(<<(<<"/", "r", "a">>), (<<"/", "r", "b">>)>>), None, None>>,
     <<(<<(<<"/", "r", "a">>), (<<"/", "q", "a">>)>>), None, None>>,
     <<(<<(<<"/">>)>>), None, None>>,
     <<(<<(<<"/">>), (<<"/", "r", "a">>)>>), None, None>>,
     <<(<<(<<"/", "r", "a">>)>>), (<<"b">>), None>>,
     <<(<<(<<"/">>)>>), (<<"b">>), None>>,
     <<(<<(<<"/", "r", "a">>), (<<"/", "r", "b">>)>>), (<<"b">>), None>>,
     <<(<<(<<"/", "r", "a">>)>>), None, (<<"d">>)>>,
     <<(<<(<<"/">>)>>), None, (<<"d">>)>>}

AddCommands ==
    {[op |-> "add", files |-> n[1], rename |-> n[2], into |-> n[3],
      collect |-> collect, dry_run |-> m[1], quiet |-> m[2],
      promote |-> m[3]] :
        n \in AddFiles, collect \in BOOLEAN, m \in Flags}

RemoveCommands ==
    {[op |-> "remove", files |-> n[1], remote_naming |-> n[2],
      delete |-> delete, dry_run |-> m[1], quiet |-> m[2],
      promote |-> m[3]] :
        n \in {<<(<<(<<"a">>)>>), FALSE>>, <<(<<(<<"a">>), (<<"b">>)>>), FALSE>>,
               <<(<<(<<"/", "r", "a">>)>>), TRUE>>},
        delete \in BOOLEAN, m \in Flags}

\* The flags move_file, dry_run and quiet of rename, with `mv_starts` in
\* the second place: it is no argument, it tells whether the `mv` process
\* of --move-file can be started.
MoveFlags ==
    {<<FALSE, TRUE, FALSE, FALSE>>, <<TRUE, TRUE, FALSE, FALSE>>,
     <<TRUE, FALSE, FALSE, FALSE>>, <<TRUE, TRUE, TRUE, FALSE>>,
     <<FALSE, TRUE, TRUE, TRUE>>}

MoveCommands ==
    {[op |-> "move", from |-> from, to |-> to, move_file |-> m[1],
      mv_starts |-> m[2], force |-> force, dry_run |-> m[3],
      quiet |-> m[4]] :
        from \in ValidLocals, to \in LocalArgs,
        force \in BOOLEAN, m \in MoveFlags}

RunCommands ==
    {[op |-> op, force |-> force, dry_run |-> dry_run, promote |-> promote] :
        op \in {"collect", "distribute"},
        force \in BOOLEAN, dry_run \in BOOLEAN, promote \in BOOLEAN}

StatusCommands == {[op |-> "status"]}

NextMain ==
    \/ \E c \in InitCommands : Main(c, <<>>)
    \/ \E c \in AddCommands : Main(c, <<>>)
    \/ \E c \in RemoveCommands : Main(c, <<>>)
    \/ \E c \in MoveCommands : Main(c, <<>>)
    \/ \E c \in StatusCommands : Main(c, <<>>)
    \/ \E c \in RunCommands : \E order \in Orders(stall_file.entries) :
            Main(c, order)
    \/ DeleteStallFile
    \/ ProtectStallFile

SpecMain == InitMain /\ [][NextMain]_vars

----------------------------------------------------------------------------
\* Properties of the store.

OneToOne(E) == \A x, y \in E : (x[1] = y[1] \/ x[2] = y[2]) => x = y

InsertedOk == last.op = "insert" /\ last.result = "ok"

\* C1: after any sequence of store operations and commands, from an empty
\* or a loaded store, no two entries share a local path and no two entries
\* share a remote path.
C1_Bijection == OneToOne(entries)

\* An insert that overwrote two entries, one with the same local path and
\* one with the same remote path.
C1_Witness ==
    /\ InsertedOk
    /\ Cardinality(Overwritten(last.before, last.local, last.remote)) = 2

\* C6: an insert on a store that holds an entry with the same local or the
\* same remote path removes that entry and holds the new pair; no path is
\* in two entries afterwards, and every entry that shares neither path with
\* the new pair is unchanged.
C6_InsertReplaces ==
    (InsertedOk /\ Overwritten(last.before, last.local, last.remote) # {}) =>
        /\ <<last.local, last.remote>> \in entries
        /\ \A e \in entries :
              (e[1] = last.local \/ e[2] = last.remote)
                  => e = <<last.local, last.remote>>
        /\ \A e \in last.before :
              (e[1] # last.local /\ e[2] # last.remote) => e \in entries
        /\ entries \subseteq last.before \cup {<<last.local, last.remote>>}

\* An insert that took over the remote path of an old entry under another
\* local path, while a third entry stayed.
C6_Witness ==
    /\ InsertedOk
    /\ \E e \in last.before : e[2] = last.remote /\ e[1] # last.local
    /\ \E e \in last.before : e[1] # last.local /\ e[2] # last.remote

\* C7: right after insert(local, remote) of two paths with a file name,
\* entry_local(local) yields remote and entry_remote(remote) yields local.
C7_LookupAfterInsert ==
    InsertedOk =>
        /\ EntryLocal(entries, last.local) = last.remote
        /\ EntryRemote(entries, last.remote) = last.local

\* An insert of a local path that was mapped to another remote path.
C7_Witness ==
    /\ InsertedOk
    /\ EntryLocal(last.before, last.local) \notin {None, last.remote}

\* C8: remove_local(p) (remove_remote(p)) returns the pair of the entry with
\* local (remote) path p and deletes exactly that entry, so that neither of
\* its paths resolves afterwards; with no such entry it returns None and
\* the entries are unchanged.
C8_RemoveReturnsPair ==
    /\ last.op = "remove_local" =>
          IF \E e \in last.before : e[1] = last.local
          THEN /\ last.ret \in last.before
               /\ last.ret[1] = last.local
               /\ entries = last.before \ {last.ret}
               /\ EntryLocal(entries, last.ret[1]) = None
               /\ EntryRemote(entries, last.ret[2]) = None
          ELSE last.ret = None /\ entries = last.before
    /\ last.op = "remove_remote" =>
          IF \E e \in last.before : e[2] = last.remote
          THEN /\ last.ret \in last.before
               /\ last.ret[2] = last.remote
               /\ entries = last.before \ {last.ret}
               /\ EntryLocal(entries, last.ret[1]) = None
               /\ EntryRemote(entries, last.ret[2]) = None
          ELSE last.ret = None /\ entries = last.before

\* A remove by remote path that returned a pair and left another entry.
C8_Witness ==
    /\ last.op = "remove_remote"
    /\ last.ret # None
    /\ entries # {}

InsertedBadPath ==
    last.op = "insert" /\ ~(file_name(last.local) # None /\ file_name(last.remote) # None)

\* C9, as claimed: an insert of a path without a file name fails with an
\* InvalidEntryPath error and adds no entry.
C9_InsertReturnsError ==
    InsertedBadPath => (last.result = "InvalidEntryPath" /\ entries = last.before)

\* C9, amended: an insert of a path without a file name panics (insert
\* returns no error value), adds no entry and leaves the modified flag as
\* it was.
C9_InsertPanics ==
    InsertedBadPath =>
        /\ last.result = "panic"
        /\ entries = last.before
        /\ modified = last.wasModified

\* An insert of the remote path "/" under a good local path, on a store
\* that holds entries and is not modified.
C9_Witness ==
    /\ InsertedBadPath
    /\ file_name(last.local) # None
    /\ last.before # {}
    /\ ~last.wasModified

----------------------------------------------------------------------------
\* Properties of the collect and distribute runs.

Evaluated == ev.op \in {"collect", "distribute"}

\* The action of the entry evaluated last, in the terms of the decision
\* table: a copy in state Force is the action Force.
ActionName ==
    IF ev.action = "Copy" /\ ev.state = "Force" THEN "Force" ELSE ev.action

\* The status of the entry evaluated last, as Entry::status gives it.
StatusOfEntry == EntryStatus(ev.lstat, ev.rstat)

\* The decision table claimed for distribute.
DistributeTable(status, force) ==
    IF status \in {<<"Exists", "Absent">>, <<"Newer", "Older">>} THEN "Copy"
    ELSE IF force /\ status \in {<<"Same", "Same">>, <<"Older", "Newer">>} THEN "Force"
    ELSE IF status[1] = "Error" \/ status[2] = "Error" THEN "Stop"
    ELSE "Skip"

\* C2: in a run without force, no copy is made onto a file that exists with
\* a modification time greater than that of the source file.
C2_NeverOverwritesNewer ==
    (Evaluated /\ ev.copied /\ ~run.force) =>
        ~(ev.dstat.kind = "file" /\ ev.sstat.kind = "file"
            /\ ev.dstat.mtime > ev.sstat.mtime)

\* A copy without force onto a file that existed and was older.
C2_Witness ==
    /\ Evaluated /\ ev.copied /\ ~run.force
    /\ ev.dstat.kind = "file" /\ ev.sstat.kind = "file"
    /\ ev.dstat.mtime < ev.sstat.mtime

\* C3, as claimed: in a collect run the action is Copy for the status
\* (Absent, Exists) or (Older, Newer), Force under force for (Same, Same) or
\* (Newer, Older), Stop when a status is Error, and Skip otherwise.
C3_CollectTable ==
    ev.op = "collect" => ActionName = EntryCollectAction(StatusOfEntry, run.force)

\* C4, as claimed: in a distribute run the action is Copy for the status
\* (Exists, Absent) or (Newer, Older), Force under force for (Same, Same) or
\* (Older, Newer), Stop when a status is Error, and Skip otherwise.
C4_DistributeTable ==
    ev.op = "distribute" => ActionName = DistributeTable(StatusOfEntry, run.force)

\* C5, as claimed: when both files exist with modification times, the
\* status is (Older, Newer) for a local time less than the remote one,
\* (Same, Same) for equal times and (Newer, Older) for a greater local time.
C5_StatusTable ==
    (ev.op = "status" /\ ev.lstat.kind = "file" /\ ev.rstat.kind = "file") =>
        ev.status = IF ev.lstat.mtime < ev.rstat.mtime THEN <<"Older", "Newer">>
                    ELSE IF ev.lstat.mtime = ev.rstat.mtime THEN <<"Same", "Same">>
                    ELSE <<"Newer", "Older">>

\* C10, as claimed: an entry whose two files exist with equal modification
\* times is copied, as Force, under force, and skipped without force, in
\* collect and in distribute.
C10_ForceOnSame ==
    (Evaluated /\ StatusOfEntry = <<"Same", "Same">>) =>
        IF run.force
        THEN ActionName = "Force" /\ ev.copied = ~run.dry_run
        ELSE ActionName = "Skip" /\ ~ev.copied

\* The run goes on, or has ended with Ok, after the entry evaluated last.
RunGoesOn == run.result = (IF run.todo = {} THEN "ok" ELSE "running")

\* C11, as claimed: for an entry whose local file exists and whose remote
\* file does not, a collect run skips the entry, copies nothing and does
\* not fail, whatever the force and promotion flags are, and a distribute
\* run copies it.
C11_ExistsAbsent ==
    (Evaluated /\ StatusOfEntry = <<"Exists", "Absent">>) =>
        IF ev.op = "collect"
        THEN ActionName = "Skip" /\ ~ev.copied /\ RunGoesOn
        ELSE ActionName = "Copy"

----------------------------------------------------------------------------
\* The branch of the loop for a source file that does not exist.
SourceMissing == Evaluated /\ ev.state # "none" /\ ~exists(ev.sstat)

\* An entry with the action Stop has ended the run; the entry of a missing
\* source file is a Stop with promotion of warnings and a Skip without.
StopOrSkip ==
    /\ (Evaluated /\ ev.action = "Stop") =>
          (/\ SourceMissing /\ run.promote
           /\ run.result = "MissingFile" /\ run.path = ev.src
           /\ ~ev.copied)
    /\ (SourceMissing /\ run.promote) => ev.action = "Stop"
    /\ (SourceMissing /\ ~run.promote) =>
          (ev.action = "Skip" /\ ~ev.copied /\ RunGoesOn)
    /\ (run.result = "ok" /\ run.path = None) => run.todo = {}

\* After the MissingFile error no entry is evaluated and no file is copied
\* by the run.
NothingAfterStop ==
    run.result = "MissingFile" => (~Evaluated' \/ (ev' = ev /\ fs' = fs))

----------------------------------------------------------------------------
\* An entry is evaluated in the second of two collect runs, and its source
\* file exists: the entry was no Error in the first run, which does not
\* write source files.
SecondRun == ev.op = "collect" /\ run.again /\ exists(ev.sstat)

\* C13, as claimed: in the second of two collect runs in succession, with
\* no change to the files in between, the action is Skip for every entry
\* that was no error in the first run.  The first run is no dry run and the
\* second run is without force.
C13_SecondRunSkips ==
    (SecondRun /\ ~run.force) => ev.action = "Skip"

----------------------------------------------------------------------------
\* A collect run copied the remote file of an entry, newer than its local
\* file, over the local file.
CollectedNewer ==
    /\ ev.op = "collect" /\ ev.copied
    /\ ev.lstat.kind = "file" /\ ev.rstat.kind = "file"
    /\ ev.lstat.mtime < ev.rstat.mtime

\* C14, as claimed: after a collect run has copied the remote file of an
\* entry, newer than its local file, the local file has the modification
\* time of the remote file and the status of the entry is (Same, Same).
C14_SameAfterCollect ==
    (CollectedNewer /\ run.result \in {"running", "ok"}) =>
        /\ Stat(fs, FullLocal(ev.entry)).mtime = Stat(fs, ev.entry[2]).mtime
        /\ EntryStatus(Stat(fs, FullLocal(ev.entry)), Stat(fs, ev.entry[2]))
              = <<"Same", "Same">>

----------------------------------------------------------------------------
\* A step of a dry run evaluates an entry of the run, with the state and
\* the action a real run gives it, and leaves every file as it is.
DryRunStep ==
    (Running /\ run.dry_run) =>
        /\ fs' = fs
        /\ ev'.op = run.kind
        /\ ev'.entry \in run.todo
        /\ ~ev'.copied
        /\ LET r == IF run.kind = "collect"
                    THEN CollectEntry(ev'.entry, fs, run.force, run.promote)
                    ELSE DistributeEntry(ev'.entry, fs, run.force, run.promote)
           IN  ev'.state = r.state /\ ev'.action = r.action

\* C15: a collect or distribute run with dry_run copies nothing: every file
\* is after each of its steps as it was before, for every store and with or
\* without force, while the entries are evaluated as in a real run.
C15_DryRunCopiesNothing == [][DryRunStep]_vars

\* A dry run under force evaluated an entry to a copy onto an existing
\* file, which is as it was.
C15_Witness ==
    /\ Evaluated /\ run.dry_run /\ run.force
    /\ ev.action = "Copy" /\ ev.state = "Force"
    /\ ~ev.copied
    /\ Stat(fs, ev.dst) = ev.dstat

----------------------------------------------------------------------------
\* C16, as claimed: collect copies from the remote path of the entry to the
\* stall directory joined with its local path, and distribute copies the
\* other way, also for an entry whose local path is not the file name of
\* its remote path.
C16_CopyPaths ==
    (Evaluated /\ ev.action = "Copy") =>
        IF ev.op = "collect"
        THEN ev.src = ev.entry[2] /\ ev.dst = FullLocal(ev.entry)
        ELSE ev.src = FullLocal(ev.entry) /\ ev.dst = ev.entry[2]

----------------------------------------------------------------------------
\* The files given to the run that are the local path of no entry.
UnknownFiles == {i \in 1..Len(run.files) : EntryLocal(entries, run.files[i]) = None}

----------------------------------------------------------------------------
\* copy_file was called for the entry evaluated last and cp failed: the
\* target is no file with the content of the source.
CopyFailed == Evaluated /\ ev.copied /\ Stat(fs, ev.dst).kind # "file"

\* C18, as claimed: when the copy of an entry fails, the run returns the
\* error of the copy and evaluates no later entry.
C18_CopyErrorEndsRun ==
    CopyFailed => run.result \notin {"running", "ok"}

----------------------------------------------------------------------------
\* Reading the metadata fails in the comparison of two files: the metadata
\* of one cannot be read, or both are found and a modification time is not
\* available.
StatFailure(l, r) ==
    \/ TryFromIsErr(l)
    \/ TryFromIsErr(r)
    \/ (is_found(l) /\ is_found(r) /\ partial_cmp(l, r) = "None")

\* C19, as claimed: a failure to read the metadata of one of the two files
\* of an entry gives the status Error on a side, and in a run without
\* promotion of warnings it is no error of the run, which goes on to the
\* remaining entries.
C19_StatErrorAbsorbed ==
    /\ (ev.op = "status" /\ StatFailure(ev.lstat, ev.rstat)) =>
          (ev.status[1] = "Error" \/ ev.status[2] = "Error")
    /\ (Evaluated /\ ~run.promote /\ StatFailure(ev.sstat, ev.dstat)) => RunGoesOn

----------------------------------------------------------------------------
\* C20: after an insert, a remove_local or a remove_remote has returned,
\* the store is modified, whether or not the call changed an entry; a store
\* that has just been constructed, or loaded from a file in the RON or the
\* list format, is not modified.
C20_ModifiedFlag ==
    /\ InsertedOk => modified
    /\ last.op \in {"remove_local", "remove_remote"} => modified
    /\ (last.op \in {"new", "read_ron", "read_list"} /\ last.result = "ok")
          => ~modified

\* A remove_local of a path that is in no entry, on a store that holds
\* entries and was not modified.
C20_Witness ==
    /\ last.op = "remove_local"
    /\ last.ret = None
    /\ last.before # {}
    /\ ~last.wasModified

----------------------------------------------------------------------------
\* Properties of the program.

\* A run of main is the last thing that happened.
MainDone == "exit" \in DOMAIN last

\* The stall file as the last run of main found it.
FileBefore == last.file

\* C21, as claimed: once the store has been saved successfully it is not
\* modified any more (until the next insert or remove; none follows the
\* save of main).
C21_SavedIsUnmodified ==
    (MainDone /\ last.saved = "ok") => ~modified

----------------------------------------------------------------------------
\* The outcomes the run c can have on the store of the stall file and the
\* files as they are, one for every order of the entries: the action of
\* each entry, the result of the run and the files it leaves.
RunOutcomes(c) ==
    {RunAll(fs, o, c.op, c.force, c.dry_run, c.promote, clock + 1) :
        o \in Orders(stall_file.entries)}

\* C22, as claimed: a collect or distribute run has the same outcome for
\* every order in which the entries of the store are processed.
C22_OrderIndependent ==
    \A c \in RunCommands : Cardinality(RunOutcomes(c)) <= 1

----------------------------------------------------------------------------
\* C23: init writes the stall file only when there is no file at the load
\* path.  Run (not as a dry run) where there is no stall file, it creates
\* the file, holding no entry, and succeeds; a stall file that exists is
\* left as it is, by the first init and by every one after it.
C23_InitKeepsStallFile ==
    (MainDone /\ last.op = "init") =>
        /\ (FileBefore.kind = "absent" /\ ~last.args.dry_run) =>
                /\ stall_file = [kind |-> "file", entries |-> {}]
                /\ last.exit = "ok"
        /\ FileBefore.kind # "absent" => stall_file = FileBefore
        /\ stall_file # FileBefore => FileBefore.kind = "absent"

\* An init has created the stall file, and the init after it has found the
\* file and returned an error.
C23_Witness ==
    /\ MainDone
    /\ last.op = "init"
    /\ ~last.args.dry_run
    /\ FileBefore = [kind |-> "file", entries |-> {}]
    /\ last.exit = "err"
    /\ clock = 2

----------------------------------------------------------------------------
\* A run of `add --collect`, with no new name and no directory given, of
\* remote files that exist has succeeded.
AddCollected ==
    /\ MainDone
    /\ last.op = "add"
    /\ last.exit = "ok"
    /\ last.args.collect
    /\ ~last.args.dry_run
    /\ last.args.rename = None
    /\ last.args.into = None
    /\ \A i \in 1..Len(last.args.files) : exists(Stat(fs, last.args.files[i]))

\* Every file given is an entry under its file name, and there is a file in
\* the stall directory under that name.
AllRegisteredAndCopied ==
    \A i \in 1..Len(last.args.files) :
        /\ <<file_name(last.args.files[i]), last.args.files[i]>> \in entries
        /\ exists(Stat(fs, join(StallDir, file_name(last.args.files[i]))))

\* No two of the files given have the same file name.
DistinctFileNames ==
    \A i, j \in 1..Len(last.args.files) :
        file_name(last.args.files[i]) = file_name(last.args.files[j]) => i = j

\* No file given has a local file whose metadata cannot be read.
LocalsReadable ==
    \A i \in 1..Len(last.args.files) :
        Stat(fs, join(StallDir, file_name(last.args.files[i]))).kind
            \notin {"unreadable", "nomtime"}

----------------------------------------------------------------------------
\* main has dispatched to rename.
Renamed == MainDone /\ last.op = "move" /\ last.result # "none"

\* The entries with the given local path.
AtLocal(E, local) == {e \in E : e[1] = local}

\* `to` was the local path of an entry when rename was called.
ToTaken == AtLocal(last.before, last.args.to) # {}

\* The store is as rename found it.
StoreUnchanged == entries = last.before /\ ~modified

\* C25, as claimed: a rename without force onto the local path of an entry
\* returns an error and leaves the entries and the modified flag as they
\* were.
C25_RenameOntoEntryAsClaimed ==
    (Renamed /\ ToTaken /\ ~last.args.force) =>
        (last.result = "err" /\ StoreUnchanged)

\* C25, amended: a rename without force onto the local path of an entry
\* leaves the entries and the modified flag as they were, and returns an
\* error unless it is a quiet dry run, which returns Ok; a rename with
\* force (no dry run) of an entry onto the local path of an entry replaces
\* the entry that was at `to`.
C25_RenameOntoEntry ==
    /\ (Renamed /\ ToTaken /\ ~last.args.force) =>
            /\ StoreUnchanged
            /\ last.result =
                    IF last.args.dry_run /\ last.args.quiet THEN "ok" ELSE "err"
    /\ (Renamed /\ ToTaken /\ last.args.force /\ ~last.args.dry_run
            /\ AtLocal(last.before, last.args.from) # {}) =>
            AtLocal(entries, last.args.to) =
                {<<last.args.to, e[2]>> :
                    e \in AtLocal(last.before, last.args.from)}

\* A forced rename has replaced the entry of another local path.
C25_Witness ==
    /\ Renamed
    /\ ToTaken
    /\ last.args.force
    /\ last.args.from # last.args.to
    /\ last.result = "ok"
    /\ AtLocal(entries, last.args.to) # AtLocal(last.before, last.args.to)

----------------------------------------------------------------------------
\* A step of the program that runs add, remove or rename as a dry run.
DryRunCommand ==
    /\ clock' # clock
    /\ last'.op \in {"add", "remove", "move"}
    /\ last'.result # "none"
    /\ last'.args.dry_run

\* C26: add, remove and rename as a dry run leave the entries of the store
\* and its modified flag as they were loaded, and no file is created, moved
\* or deleted; the stall file is not written either.
C26_DryRunFrame ==
    [][DryRunCommand =>
        /\ entries' = last'.before
        /\ ~modified'
        /\ fs' = fs
        /\ stall_file' = stall_file]_vars

\* A dry run of remove with --delete, not quiet, for an entry whose local
\* file exists.
C26_Witness ==
    /\ MainDone
    /\ last.op = "remove"
    /\ last.result = "ok"
    /\ last.args.dry_run
    /\ ~last.args.quiet
    /\ last.args.delete
    /\ ~last.args.remote_naming
    /\ AtLocal(entries, last.args.files[1]) # {}
    /\ exists(Stat(fs, join(StallDir, last.args.files[1])))

----------------------------------------------------------------------------
\* A run without force has just copied the entry it evaluated, and the copy
\* was made.
CopiedUnforced ==
    /\ Evaluated
    /\ ev.copied
    /\ ~run.force
    /\ Stat(fs, ev.src).kind = "file"
    /\ Stat(fs, ev.dst).kind = "file"

\* C27, as claimed: once a run without force has copied an entry, a run
\* without force that comes to the entry next, with the files as the copy
\* left them, does not copy it again, whether it collects or distributes.
C27_FixedPoint ==
    CopiedUnforced =>
        /\ CollectEntry(ev.entry, fs, FALSE, run.promote).outcome # "copy"
        /\ DistributeEntry(ev.entry, fs, FALSE, run.promote).outcome # "copy"

----------------------------------------------------------------------------
\* main has dispatched to a command, and the command has returned.
Returned == MainDone /\ last.result \in {"ok", "err"}

\* C28: after a command that main dispatched to has returned, Ok or an
\* error, the store is written to its load path exactly when it is
\* modified: the write puts the entries of the store into the stall file
\* (unless the file cannot be written), and without it the file is as the
\* command left it.  status, collect and distribute never write the stall
\* file; what an add, remove or rename changed before it failed is saved.
C28_SavedWhenModified ==
    /\ Returned => ((last.saved # "none") <=> modified)
    /\ (Returned /\ last.saved = "ok") =>
            stall_file = [kind |-> "file", entries |-> entries]
    /\ (Returned /\ last.saved # "ok" /\ last.op # "init") =>
            stall_file = FileBefore
    /\ (MainDone /\ last.op \in {"status", "collect", "distribute"}) =>
            (last.saved = "none" /\ stall_file = FileBefore)
    /\ (Returned /\ last.result = "err" /\ modified
            /\ FileBefore.kind = "file") =>
            (last.saved = "ok" /\ stall_file.entries = entries)

\* A command has returned an error after it changed the entries, and the
\* stall file holds the entries as it left them.
C28_Witness ==
    /\ Returned
    /\ last.result = "err"
    /\ entries # last.before
    /\ stall_file = [kind |-> "file", entries |-> entries]
    /\ stall_file # FileBefore

----------------------------------------------------------------------------
\* rename was called, not as a dry run, on a store that holds entries.
RenamedForReal == Renamed /\ ~last.args.dry_run /\ last.before # {}

\* The entries whose local path is neither `from` nor `to`.
Others(E) == {e \in E : e[1] \notin {last.args.from, last.args.to}}

\* C29, as claimed: a rename that is no dry run, on a store that holds entries, is all
\* or nothing on the entries.  When it succeeds, `to` is mapped to the
\* remote path `from` was mapped to, `from` (when it is not `to`) is the
\* local path of no entry, and the other entries are as they were; when it
\* returns an error, also for a `from` that is in no entry, with or without
\* force, the entries are as they were.
C29_RenameAllOrNothing ==
    /\ (RenamedForReal /\ last.result = "ok") =>
            /\ AtLocal(last.before, last.args.from) # {}
            /\ AtLocal(entries, last.args.to) =
                    {<<last.args.to, e[2]>> :
                        e \in AtLocal(last.before, last.args.from)}
            /\ last.args.from # last.args.to =>
                    AtLocal(entries, last.args.from) = {}
            /\ Others(entries) = Others(last.before)
    /\ (RenamedForReal /\ last.result = "err") => entries = last.before

----------------------------------------------------------------------------
\* C30, as claimed: add does not end the program on a remote path without
\* file name, with or without a new name or a directory given: the path is
\* skipped, or an error is returned for it, and it is never the remote path
\* of an entry.
C30_AddNeverAborts ==
    (MainDone /\ last.op = "add") =>
        /\ last.result # "panic"
        /\ \A e \in entries : HasFileName(e[2])

====
